---- MODULE Spec2Model ----
(***************************************************************************)
(* Model of src/main.py: IBKRConnector, the Heikin-Ashi/EMA trading        *)
(* strategy runner.  The asyncio event loop is a FIFO queue of ready       *)
(* tasks; the broker (orders, fills, cancels, positions, account summary)  *)
(* is the environment.  Prices are exact rationals <<num, den>>.           *)
(***************************************************************************)
EXTENDS Integers, Sequences, FiniteSets, TLC

(***************************************************************************)
(* Bounds of the model.                                                    *)
(***************************************************************************)
MaxUpdates == 2    \* S1 bar updates (intrabar or new bar) the feed delivers
MaxNewBars == 1    \* S1 bars that close, each starting a bar-close cycle

(***************************************************************************)
(* Configuration (cfg.ini, section general) and literals of the code.      *)
(***************************************************************************)
size == 1
fixed_stoploss == 8
trailing_stoploss == 4
trailing_stoploss_trigger == 8
ema_period == 3
vix_ema_period == 3
lower_pnl == -100
upper_pnl == 100
SleepDelay == 3
Conditions == {"1", "2"}

(***************************************************************************)
(* Exact rational arithmetic for the float computations of the code (all   *)
(* values of the model are dyadic, so doubles compute them exactly).       *)
(***************************************************************************)
Abs(n) == IF n < 0 THEN -n ELSE n

RECURSIVE Gcd(_, _)
Gcd(a, b) == IF b = 0 THEN a ELSE Gcd(b, a % b)

Q(n, d) ==
    LET s == IF d < 0 THEN -1 ELSE 1
        g == Gcd(Abs(n), Abs(d))
    IN  <<(s * n) \div g, (s * d) \div g>>

QInt(n) == <<n, 1>>
QAdd(a, b) == Q(a[1] * b[2] + b[1] * a[2], a[2] * b[2])
QSub(a, b) == Q(a[1] * b[2] - b[1] * a[2], a[2] * b[2])
QMul(a, b) == Q(a[1] * b[1], a[2] * b[2])
QDiv(a, b) == Q(a[1] * b[2], a[2] * b[1])
QLt(a, b) == a[1] * b[2] < b[1] * a[2]
QLe(a, b) == a[1] * b[2] <= b[1] * a[2]
QGt(a, b) == QLt(b, a)
QGe(a, b) == QLe(b, a)
QMax(a, b) == IF QLt(a, b) THEN b ELSE a
QMin(a, b) == IF QLt(b, a) THEN b ELSE a

NoPrice == <<0, 0>>          \* None where the code expects a price
TickSize == Q(1, 4)          \* the literal 0.25

(***************************************************************************)
(* Raw bars of the two feeds.                                              *)
(***************************************************************************)
Bar(o, h, l, c) == [open |-> QInt(o), high |-> QInt(h), low |-> QInt(l), close |-> QInt(c)]

S1Up == Bar(8, 12, 8, 12)
S1Down == Bar(14, 14, 10, 10)
S1BarSet == {S1Up, S1Down}
\* what the 2 D request for S1 may return
S1Histories == {<<S1Up, S1Down, S1Up>>, <<S1Down, S1Up, S1Down>>, <<S1Up, S1Up, S1Down>>}
S2Flat == Bar(20, 20, 20, 20)
S2BarSet == {Bar(20, 22, 18, 18), Bar(20, 24, 20, 24)}
\* what the 2 D request for S2 may return
S2Histories == {<<S2Flat, S2Flat>>}
PnlValues == {-101, -100, 100, 101}

SummaryRow(t, c, v) == [tag |-> t, currency |-> c, value |-> v]

\* ib.accountSummaryAsync(): the rows the broker may answer with
AccountSummaries ==
    {<<SummaryRow("RealizedPnL", "BASE", 0), SummaryRow("RealizedPnL", "USD", v)>> :
        v \in PnlValues}
    \cup {<<SummaryRow("NetLiquidation", "USD", 0)>>}

(***************************************************************************)
(* compute_heikin_ashi: ha_close is the OHLC average; open, high and low   *)
(* start as copies of ha_close and only indices >= 1 are overwritten.      *)
(***************************************************************************)
ha_close_of(b) == QDiv(QAdd(QAdd(b.open, b.high), QAdd(b.low, b.close)), QInt(4))

RECURSIVE ha_rows(_, _)
ha_rows(bars, n) ==
    IF n = 0 THEN <<>>
    ELSE IF n = 1
         THEN LET c == ha_close_of(bars[1])
              IN  <<[open |-> c, high |-> c, low |-> c, close |-> c]>>
         ELSE LET prev == ha_rows(bars, n - 1)
                  c == ha_close_of(bars[n])
                  o == QDiv(QAdd(prev[n - 1].open, prev[n - 1].close), QInt(2))
              IN  Append(prev, [open |-> o,
                                high |-> QMax(bars[n].high, QMax(o, c)),
                                low |-> QMin(bars[n].low, QMin(o, c)),
                                close |-> c])

compute_heikin_ashi(bars) == ha_rows(bars, Len(bars))

(***************************************************************************)
(* compute_ema: ema[0] = p[0], ema[i] = p[i]*alpha + ema[i-1]*(1-alpha).   *)
(***************************************************************************)
RECURSIVE ema_rows(_, _, _)
ema_rows(prices, alpha, n) ==
    IF n = 0 THEN <<>>
    ELSE IF n = 1 THEN <<prices[1]>>
         ELSE LET prev == ema_rows(prices, alpha, n - 1)
              IN  Append(prev, QAdd(QMul(prices[n], alpha),
                                    QMul(prev[n - 1], QSub(QInt(1), alpha))))

compute_ema(prices, period) == ema_rows(prices, Q(2, period + 1), Len(prices))

Column(rows, f) == [i \in 1..Len(rows) |-> rows[i][f]]

VARIABLES
    condition,      \* config['condition']
    s1_bars,        \* self.s1_bars
    s1_ha_bars,     \* self.s1_ha_bars without the ema column
    s1_ema,         \* self.s1_ha_bars['ema']
    s2_bars,        \* self.s2_bars
    s2_ha_bars,     \* self.s2_ha_bars without the ema column
    s2_ema,         \* self.s2_ha_bars['ema']
    entry_price,    \* self.entry_price
    oca_group,      \* self.oca_group
    position,       \* broker: net signed quantity of S1 as reported by ib.positions()
    orders,         \* broker: ib.trades(), one record per order placed, in id order
    cycles,         \* the execute() coroutines
    ready,          \* event loop: FIFO queue of tasks ready to run
    updates,        \* feed: S1 bar updates delivered so far
    last            \* what the most recent handler or task step did

vars == <<condition, s1_bars, s1_ha_bars, s1_ema, s2_bars, s2_ha_bars, s2_ema,
          entry_price, oca_group, position, orders, cycles, ready, updates, last>>

s1_state == <<s1_bars, s1_ha_bars, s1_ema, updates>>
s2_state == <<s2_bars, s2_ha_bars, s2_ema>>

S1Symbol == "MNQ"            \* self.s1_contract.symbol

(***************************************************************************)
(* Broker interface of ib_insync as the code uses it.  An order record is  *)
(* the Trade: the Order's fields plus orderStatus.                         *)
(***************************************************************************)
NoOca == 0                   \* ocaGroup = None (self.oca_group never assigned)
UnsetOca == -1               \* ocaGroup left at the Order default ''
DoneStates == {"Filled", "Cancelled"}

Order(action, qty, type, aux, trail, ref, oca, rth) ==
    [orderId |-> 0, symbol |-> S1Symbol, action |-> action, totalQuantity |-> qty,
     orderType |-> type, auxPrice |-> aux, trailStopPrice |-> trail,
     orderRef |-> ref, ocaGroup |-> oca, outsideRth |-> rth,
     status |-> "Submitted", avgFillPrice |-> QInt(0)]

MarketOrder(action, qty, ref, rth) ==
    Order(action, qty, "MKT", NoPrice, NoPrice, ref, UnsetOca, rth)

StopOrder(action, qty, stopPrice, ref, oca) ==
    Order(action, qty, "STP", stopPrice, NoPrice, ref, oca, TRUE)

isDone(o) == o.status \in DoneStates

\* ib.openTrades(): the ids of the trades that are not done, in order
openTrades(os) == {i \in 1..Len(os) : ~isDone(os[i])}

\* ib.positions(): zero positions are not listed
positions(pos) ==
    IF pos = 0 THEN <<>> ELSE <<[symbol |-> S1Symbol, position |-> pos]>>

\* ib.placeOrder: the order gets the next id and joins ib.trades()
placeOrder(B, o) ==
    LET id == Len(B.orders) + 1
    IN  [orders |-> Append(B.orders, [o EXCEPT !.orderId = id]),
         reqs |-> Append(B.reqs, [op |-> "place", orderId |-> id])]

\* ib.cancelOrder: the request is sent; the trade stays open until the broker answers
cancelOrder(B, id) ==
    [orders |-> [B.orders EXCEPT ![id].status = "PendingCancel"],
     reqs |-> Append(B.reqs, [op |-> "cancel", orderId |-> id])]

(***************************************************************************)
(* The methods of IBKRConnector.  B is the broker view a handler works on: *)
(* [orders, reqs], reqs being the requests it has sent so far.             *)
(***************************************************************************)
has_open_position(ps) ==
    \E i \in 1..Len(ps) : ps[i].symbol = S1Symbol

has_pending_trailing_stop_order_never(os) == FALSE

has_pending_trailing_stop_order(os) ==
    \E i \in openTrades(os) : os[i].orderRef = "trailing_stop_loss"

get_position_size(ps) ==
    IF \E i \in 1..Len(ps) : ps[i].symbol = S1Symbol
    THEN ps[CHOOSE i \in 1..Len(ps) :
                /\ ps[i].symbol = S1Symbol
                /\ \A j \in 1..(i - 1) : ps[j].symbol # S1Symbol].position
    ELSE 0

on_order_filled_same_side(B, t, price, ep, oca) ==
    IF t.orderRef = "entry"
    THEN LET stop_loss_distance == QMul(QInt(fixed_stoploss), TickSize)
             stop_order ==
                 IF t.action = "BUY"
                 THEN StopOrder("BUY", t.totalQuantity, QAdd(price, stop_loss_distance),
                                "fixed_stop_loss", t.orderId)
                 ELSE StopOrder("SELL", t.totalQuantity, QSub(price, stop_loss_distance),
                                "fixed_stop_loss", t.orderId)
         IN  [B |-> placeOrder(B, stop_order), entry_price |-> price,
              oca_group |-> t.orderId]
    ELSE [B |-> B, entry_price |-> ep, oca_group |-> oca]

\* on_order_filled: [B, entry_price, oca_group] after the execDetails event of trade t
on_order_filled(B, t, price, ep, oca) ==
    IF t.orderRef = "entry"
    THEN LET stop_loss_distance == QMul(QInt(fixed_stoploss), TickSize)
             group == t.orderId
             stop_order ==
                 IF t.action = "BUY"
                 THEN StopOrder("SELL", t.totalQuantity, QSub(price, stop_loss_distance),
                                "fixed_stop_loss", group)
                 ELSE StopOrder("BUY", t.totalQuantity, QAdd(price, stop_loss_distance),
                                "fixed_stop_loss", group)
         IN  [B |-> placeOrder(B, stop_order), entry_price |-> price, oca_group |-> group]
    ELSE [B |-> B, entry_price |-> ep, oca_group |-> oca]

\* the cancel loop of exit_s1_and_cancel_orders over the trades open at its start
RECURSIVE cancel_pending(_, _, _)
cancel_pending(B, pending, i) ==
    IF i > Len(B.orders) THEN B
    ELSE IF i \in pending /\ B.orders[i].symbol = S1Symbol
         THEN cancel_pending(cancelOrder(B, i), pending, i + 1)
         ELSE cancel_pending(B, pending, i + 1)

\* the position loop of exit_s1_and_cancel_orders
RECURSIVE close_positions(_, _, _)
close_positions(B, ps, i) ==
    IF i > Len(ps) THEN B
    ELSE IF ps[i].symbol = S1Symbol /\ ps[i].position > 0
         THEN close_positions(
                  placeOrder(B, MarketOrder("SELL", ps[i].position, "", FALSE)), ps, i + 1)
         ELSE IF ps[i].symbol = S1Symbol /\ ps[i].position < 0
              THEN close_positions(
                       placeOrder(B, MarketOrder("BUY", Abs(ps[i].position), "", FALSE)),
                       ps, i + 1)
              ELSE close_positions(B, ps, i + 1)

exit_s1_and_cancel_orders_flatten_first(B, ps) ==
    cancel_pending(close_positions(B, ps, 1), openTrades(B.orders), 1)

exit_s1_and_cancel_orders(B, ps) ==
    close_positions(cancel_pending(B, openTrades(B.orders), 1), ps, 1)

\* get_daily_pnl over the rows of the account summary
RECURSIVE get_daily_pnl(_, _)
get_daily_pnl(summary, i) ==
    IF i > Len(summary) THEN 0
    ELSE IF summary[i].tag = "RealizedPnL" /\ summary[i].currency = "USD"
         THEN summary[i].value
         ELSE get_daily_pnl(summary, i + 1)

is_pnl_within_limits_upper_only(summary) ==
    get_daily_pnl(summary, 1) <= upper_pnl

is_pnl_within_limits(summary) ==
    LET daily_pnl == get_daily_pnl(summary, 1)
    IN  lower_pnl <= daily_pnl /\ daily_pnl <= upper_pnl

\* iloc[-2] and iloc[-1]
SecondLast(rows) == rows[Len(rows) - 1]
Latest(rows) == rows[Len(rows)]

condition1_entry_ge(B, ha, ema) ==
    IF Len(ha) > 1
    THEN IF QGe(SecondLast(ha).close, SecondLast(ema))
         THEN placeOrder(B, MarketOrder("BUY", size, "entry", TRUE))
         ELSE placeOrder(B, MarketOrder("SELL", size, "entry", TRUE))
    ELSE B

condition1_entry(B, ha, ema) ==
    IF Len(ha) > 1
    THEN IF QGt(SecondLast(ha).close, SecondLast(ema))
         THEN placeOrder(B, MarketOrder("BUY", size, "entry", TRUE))
         ELSE IF QLt(SecondLast(ha).close, SecondLast(ema))
              THEN placeOrder(B, MarketOrder("SELL", size, "entry", TRUE))
              ELSE B
    ELSE B

condition2_entry(B, ha, ema, ha2, ema2) ==
    IF Len(ha) > 1 /\ Len(ha2) > 0
    THEN IF /\ QGt(SecondLast(ha).close, SecondLast(ha).open)
            /\ QGt(SecondLast(ha).close, SecondLast(ema))
            /\ QLt(Latest(ha2).close, Latest(ema2))
         THEN placeOrder(B, MarketOrder("BUY", size, "entry", TRUE))
         ELSE IF /\ QLt(SecondLast(ha).close, SecondLast(ha).open)
                 /\ QLt(SecondLast(ha).close, SecondLast(ema))
                 /\ QGt(Latest(ha2).close, Latest(ema2))
              THEN placeOrder(B, MarketOrder("SELL", size, "entry", TRUE))
              ELSE B
    ELSE B

\* entry, up to its await: TRUE when it goes on to query the PnL
entry_preconditions(ps, os) ==
    ~(has_open_position(ps) \/ has_pending_trailing_stop_order(os))

\* entry, from the answer of the PnL query on
entry_resume(B, summary, cond, ha, ema, ha2, ema2) ==
    IF ~is_pnl_within_limits(summary) THEN B
    ELSE IF cond = "1" THEN condition1_entry(B, ha, ema)
         ELSE IF cond = "2" THEN condition2_entry(B, ha, ema, ha2, ema2)
              ELSE B

condition1_exit_same_side(B, ps, position_size, ha, ema) ==
    IF Len(ha) > 1
    THEN IF position_size > 0 /\ QGt(SecondLast(ha).close, SecondLast(ema))
         THEN exit_s1_and_cancel_orders(B, ps)
         ELSE IF position_size < 0 /\ QLt(SecondLast(ha).close, SecondLast(ema))
              THEN exit_s1_and_cancel_orders(B, ps)
              ELSE B
    ELSE B

condition1_exit(B, ps, position_size, ha, ema) ==
    IF Len(ha) > 1
    THEN IF position_size > 0 /\ QLt(SecondLast(ha).close, SecondLast(ema))
         THEN exit_s1_and_cancel_orders(B, ps)
         ELSE IF position_size < 0 /\ QGt(SecondLast(ha).close, SecondLast(ema))
              THEN exit_s1_and_cancel_orders(B, ps)
              ELSE B
    ELSE B

condition2_exit(B, ps, position_size, ha, ema) ==
    IF Len(ha) > 1
    THEN IF /\ position_size > 0
            /\ QLt(SecondLast(ha).close, SecondLast(ema))
            /\ QLt(SecondLast(ha).close, SecondLast(ha).open)
         THEN exit_s1_and_cancel_orders(B, ps)
         ELSE IF /\ position_size < 0
                 /\ QGt(SecondLast(ha).close, SecondLast(ema))
                 /\ QGt(SecondLast(ha).close, SecondLast(ha).open)
              THEN exit_s1_and_cancel_orders(B, ps)
              ELSE B
    ELSE B

exit(B, ps, cond, ha, ema) ==
    LET position_size == get_position_size(ps)
    IN  IF cond = "1" /\ position_size # 0
        THEN condition1_exit(B, ps, position_size, ha, ema)
        ELSE IF cond = "2" /\ position_size # 0
             THEN condition2_exit(B, ps, position_size, ha, ema)
             ELSE B

\* manage_positions: [B, entry_price] after one run
manage_positions(B, ps, bars, ep, oca) ==
    LET position_size == get_position_size(ps)
        stay == [B |-> B, entry_price |-> ep]
    IN  IF position_size # 0 /\ ~has_pending_trailing_stop_order(B.orders)
        THEN IF Len(bars) = 0 THEN stay
             ELSE IF ep = NoPrice /\ Len(B.orders) = 0 THEN stay
             ELSE IF ep = NoPrice /\ Latest(B.orders).symbol # S1Symbol THEN stay
             ELSE LET last_bar == Latest(bars)
                      price == IF ep = NoPrice THEN Latest(B.orders).avgFillPrice ELSE ep
                      trailing_stop_loss_distance ==
                          QMul(QInt(trailing_stoploss), TickSize)
                      trailing_stop_loss_trigger_distance ==
                          QMul(QInt(trailing_stoploss_trigger), TickSize)
                  IN  IF /\ position_size > 0
                         /\ QGe(QSub(last_bar.high, price),
                                trailing_stop_loss_trigger_distance)
                      THEN [B |-> placeOrder(B,
                                     Order("SELL", position_size, "TRAIL",
                                           trailing_stop_loss_distance,
                                           QSub(last_bar.close, trailing_stop_loss_distance),
                                           "trailing_stop_loss", oca, TRUE)),
                            entry_price |-> price]
                      ELSE IF /\ position_size < 0
                              /\ QGe(QSub(price, last_bar.low),
                                     trailing_stop_loss_trigger_distance)
                           THEN [B |-> placeOrder(B,
                                          Order("BUY", Abs(position_size), "TRAIL",
                                                trailing_stop_loss_distance,
                                                QAdd(last_bar.close,
                                                     trailing_stop_loss_distance),
                                                "trailing_stop_loss", oca, TRUE)),
                                 entry_price |-> price]
                           ELSE [B |-> B, entry_price |-> price]
        ELSE stay

(***************************************************************************)
(* execute: the awaits of the bar-close cycle, in program order.  A cycle  *)
(* runs until it suspends: at asyncio.sleep, or inside entry at the        *)
(* account-summary query.  exit never suspends.                            *)
(***************************************************************************)
execute_entry_first == <<"entry", "sleep", "exit">>

execute == <<"exit", "sleep", "entry">>

NewCycle == [pc |-> "ready", step |-> 0, slept |-> 0, ran |-> <<>>]

RECURSIVE run_from(_, _, _, _)
run_from(B, cyc, did, i) ==
    IF i > Len(execute)
    THEN [B |-> B, cyc |-> [cyc EXCEPT !.pc = "done", !.step = i], did |-> did]
    ELSE IF execute[i] = "exit"
    THEN run_from(exit(B, positions(position), condition, s1_ha_bars, s1_ema),
                  [cyc EXCEPT !.ran = Append(@, "exit")], Append(did, "exit"), i + 1)
    ELSE IF execute[i] = "sleep"
    THEN [B |-> B, cyc |-> [cyc EXCEPT !.pc = "sleeping", !.step = i, !.slept = 0],
          did |-> did]
    ELSE IF entry_preconditions(positions(position), B.orders)
    THEN [B |-> B,
          cyc |-> [cyc EXCEPT !.pc = "awaiting_pnl", !.step = i,
                              !.ran = Append(@, "entry")],
          did |-> Append(did, "entry")]
    ELSE run_from(B, [cyc EXCEPT !.ran = Append(@, "entry")], Append(did, "entry"), i + 1)

\* one scheduling of the execute task: from where it was suspended to its next await;
\* summary is the account summary the task resumes with when it awaited one
run_cycle(B, cyc, summary) ==
    IF cyc.pc = "ready" THEN run_from(B, cyc, <<>>, 1)
    ELSE IF cyc.pc = "woken"
    THEN run_from(B, [cyc EXCEPT !.ran = Append(@, "sleep")], <<>>, cyc.step + 1)
    ELSE run_from(entry_resume(B, summary, condition, s1_ha_bars, s1_ema,
                               s2_ha_bars, s2_ema),
                  cyc, <<"entry_resume">>, cyc.step + 1)

\* asyncio.sleep(3): the timer of a sleeping cycle is due after SleepDelay time units
TimerDue(cyc) == cyc.slept >= SleepDelay

ExecuteTask(c) == [task |-> "execute", id |-> c]
ManageTask == [task |-> "manage_positions", id |-> 0]

on_s1_bar_update_always_execute(bars, hasNewBar) ==
    [s1_bars |-> bars,
     s1_ha_bars |-> compute_heikin_ashi(bars),
     s1_ema |-> compute_ema(Column(bars, "close"), ema_period),
     tasks |-> <<"execute", "manage_positions">>]

\* on_s1_bar_update: the indicator state it stores and the tasks it creates
on_s1_bar_update(bars, hasNewBar) ==
    [s1_bars |-> bars,
     s1_ha_bars |-> compute_heikin_ashi(bars),
     s1_ema |-> compute_ema(Column(bars, "close"), ema_period),
     tasks |-> IF hasNewBar THEN <<"execute", "manage_positions">>
               ELSE <<"manage_positions">>]

\* on_s2_bar_update
on_s2_bar_update(bars) ==
    LET ha == compute_heikin_ashi(bars)
    IN  [s2_bars |-> bars, s2_ha_bars |-> ha,
         s2_ema |-> compute_ema(Column(ha, "close"), vix_ema_period)]

Did(h, summary, did, reqs) ==
    [handler |-> h, summary |-> summary, did |-> did, reqs |-> reqs]

\* the last step ran no code of the strategy that talks to the broker
Idle == Did("none", <<>>, <<>>, <<>>)

(***************************************************************************)
(* Init: start() has loaded both histories, registered the three handlers  *)
(* and is about to await its own execute().                                *)
(***************************************************************************)
Init ==
    /\ condition \in Conditions
    /\ s1_bars \in S1Histories
    /\ s1_ha_bars = compute_heikin_ashi(s1_bars)
    /\ s1_ema = compute_ema(Column(s1_ha_bars, "close"), ema_period)
    /\ s2_bars \in S2Histories
    /\ s2_ha_bars = compute_heikin_ashi(s2_bars)
    /\ s2_ema = compute_ema(Column(s2_ha_bars, "close"), vix_ema_period)
    /\ entry_price = NoPrice
    /\ oca_group = NoOca
    /\ position = 0
    /\ orders = <<>>
    /\ cycles = <<NewCycle>>
    /\ ready = <<ExecuteTask(1)>>
    /\ updates = 0
    /\ last = Idle

(***************************************************************************)
(* start() on an account that already holds S1: ib.positions() reports the *)
(* position and ib.trades() the trade records the connection synced, while *)
(* entry_price and oca_group are None as __init__ left them.               *)
(***************************************************************************)
OtherSymbol == "ES"          \* a contract other than S1's among ib.trades()

Numbered(os) == [i \in 1..Len(os) |-> [os[i] EXCEPT !.orderId = i]]

\* the entry order of the held position, filled before start()
PastEntry ==
    [MarketOrder("BUY", size, "entry", TRUE) EXCEPT
        !.status = "Filled", !.avgFillPrice = S1Up.close]

\* a filled trade of another contract of the account
OtherTrade ==
    [MarketOrder("BUY", size, "", FALSE) EXCEPT
        !.symbol = OtherSymbol, !.status = "Filled", !.avgFillPrice = S2Flat.close]

\* what the 2 D request for S1 returns in the runs that start with a position
HeldHistories == {<<S1Up, S1Up, S1Down>>}

StartAccounts ==
    {[position |-> size, trades |-> <<>>],
     [position |-> size, trades |-> Numbered(<<PastEntry, OtherTrade>>)]}

InitResumed ==
    /\ condition \in Conditions
    /\ s1_bars \in HeldHistories
    /\ s1_ha_bars = compute_heikin_ashi(s1_bars)
    /\ s1_ema = compute_ema(Column(s1_ha_bars, "close"), ema_period)
    /\ s2_bars \in S2Histories
    /\ s2_ha_bars = compute_heikin_ashi(s2_bars)
    /\ s2_ema = compute_ema(Column(s2_ha_bars, "close"), vix_ema_period)
    /\ entry_price = NoPrice
    /\ oca_group = NoOca
    /\ \E account \in StartAccounts :
           /\ position = account.position
           /\ orders = account.trades
    /\ cycles = <<NewCycle>>
    /\ ready = <<ExecuteTask(1)>>
    /\ updates = 0
    /\ last = Idle

(***************************************************************************)
(* The event loop runs the task at the head of its ready queue.            *)
(***************************************************************************)
RunExecute ==
    /\ ready # <<>>
    /\ Head(ready).task = "execute"
    /\ \E summary \in IF cycles[Head(ready).id].pc = "answered"
                       THEN AccountSummaries ELSE {<<>>} :
           LET c == Head(ready).id
               r == run_cycle([orders |-> orders, reqs |-> <<>>], cycles[c], summary)
           IN  /\ orders' = r.B.orders
               /\ cycles' = [cycles EXCEPT ![c] = r.cyc]
               /\ last' = Did("execute", summary, r.did, r.B.reqs)
    /\ ready' = Tail(ready)
    /\ UNCHANGED <<condition, s1_state, s2_state,
                   entry_price, oca_group, position>>

RunManagePositions ==
    /\ ready # <<>>
    /\ Head(ready).task = "manage_positions"
    /\ LET r == manage_positions([orders |-> orders, reqs |-> <<>>], positions(position),
                                 s1_bars, entry_price, oca_group)
       IN  /\ orders' = r.B.orders
           /\ entry_price' = r.entry_price
           /\ last' = Did("manage_positions", <<>>, <<>>, r.B.reqs)
    /\ ready' = Tail(ready)
    /\ UNCHANGED <<condition, s1_state, s2_state,
                   oca_group, position, cycles>>

(***************************************************************************)
(* SleepDelay time units pass for a sleeping cycle and its timer fires.    *)
(* All cycles sleep equally long, so timers fire in the order the sleeps   *)
(* began; what else happens in the meantime is left open.                  *)
(***************************************************************************)
TimerFires ==
    \E c \in 1..Len(cycles) :
        /\ cycles[c].pc = "sleeping"
        /\ \A d \in 1..(c - 1) : cycles[d].pc # "sleeping"
        /\ LET aged == [cycles[c] EXCEPT !.slept = @ + SleepDelay]
           IN  /\ TimerDue(aged)
               /\ cycles' = [cycles EXCEPT ![c] = [aged EXCEPT !.pc = "woken"]]
        /\ ready' = Append(ready, ExecuteTask(c))
        /\ last' = Idle
        /\ UNCHANGED <<condition, s1_state, s2_state, entry_price, oca_group, position, orders>>

\* the broker answers the account-summary query of cycle c; the rows are read when the
\* task resumes
PnlAnswer ==
    \E c \in 1..Len(cycles) :
        /\ cycles[c].pc = "awaiting_pnl"
        /\ cycles' = [cycles EXCEPT ![c].pc = "answered"]
        /\ ready' = Append(ready, ExecuteTask(c))
        /\ last' = Idle
        /\ UNCHANGED <<condition, s1_state, s2_state, entry_price, oca_group, position, orders>>

(***************************************************************************)
(* Bar updates of the two keepUpToDate subscriptions: the live bar changes *)
(* in place, or a new bar is appended (hasNewBar).                         *)
(***************************************************************************)
Updated(bars, b, hasNewBar) ==
    IF hasNewBar THEN Append(bars, b) ELSE [bars EXCEPT ![Len(bars)] = b]

RECURSIVE Spawn(_, _, _)
Spawn(tasks, i, c) ==
    IF i > Len(tasks) THEN <<>>
    ELSE <<IF tasks[i] = "execute" THEN ExecuteTask(c) ELSE ManageTask>>
         \o Spawn(tasks, i + 1, c)

S1BarUpdate ==
    \E b \in S1BarSet, hasNewBar \in BOOLEAN :
        /\ updates < MaxUpdates
        /\ hasNewBar => Len(cycles) <= MaxNewBars
        /\ updates' = updates + 1
        /\ LET r == on_s1_bar_update(Updated(s1_bars, b, hasNewBar), hasNewBar)
               spawns == \E i \in 1..Len(r.tasks) : r.tasks[i] = "execute"
           IN  /\ s1_bars' = r.s1_bars
               /\ s1_ha_bars' = r.s1_ha_bars
               /\ s1_ema' = r.s1_ema
               /\ cycles' = IF spawns THEN Append(cycles, NewCycle) ELSE cycles
               /\ ready' = ready \o Spawn(r.tasks, 1, Len(cycles) + 1)
               /\ last' = Idle
        /\ UNCHANGED <<condition, s2_state, entry_price, oca_group,
                       position, orders>>

S2BarUpdate ==
    \E b \in S2BarSet :
        /\ LET r == on_s2_bar_update(Updated(s2_bars, b, FALSE))
           IN  /\ r.s2_bars # s2_bars
               /\ s2_bars' = r.s2_bars
               /\ s2_ha_bars' = r.s2_ha_bars
               /\ s2_ema' = r.s2_ema
        /\ last' = Idle
        /\ UNCHANGED <<condition, s1_state, entry_price, oca_group,
                       position, orders, cycles, ready>>

(***************************************************************************)
(* The broker fills an open order: the position moves, the other orders of *)
(* its OCA group are cancelled, and execDetailsEvent runs on_order_filled. *)
(***************************************************************************)
\* a market order fills at the current price, the close of the live S1 bar; a stop
\* or trailing stop at its stop price
FillPricesOf(o) ==
    IF o.orderType = "MKT" THEN {s1_bars[Len(s1_bars)].close}
    ELSE IF o.orderType = "STP" THEN {o.auxPrice}
         ELSE {o.trailStopPrice}

Signed(o) == IF o.action = "BUY" THEN o.totalQuantity ELSE -o.totalQuantity

Filled(os, i, price) ==
    [j \in 1..Len(os) |->
        IF j = i THEN [os[j] EXCEPT !.status = "Filled", !.avgFillPrice = price]
        ELSE IF /\ os[i].ocaGroup > 0
                /\ os[j].ocaGroup = os[i].ocaGroup
                /\ ~isDone(os[j])
             THEN [os[j] EXCEPT !.status = "Cancelled"]
             ELSE os[j]]

OrderFilled ==
    \E i \in openTrades(orders) :
        \E price \in FillPricesOf(orders[i]) :
            LET os == Filled(orders, i, price)
                r == on_order_filled([orders |-> os, reqs |-> <<>>], os[i], price,
                                     entry_price, oca_group)
            IN  /\ position' = position + Signed(orders[i])
                /\ orders' = r.B.orders
                /\ entry_price' = r.entry_price
                /\ oca_group' = r.oca_group
                /\ last' = Did("on_order_filled", <<>>, <<>>, r.B.reqs)
                /\ UNCHANGED <<condition, s1_state, s2_state, cycles, ready>>

\* the broker confirms a cancel request
CancelAck ==
    \E i \in openTrades(orders) :
        /\ orders[i].status = "PendingCancel"
        /\ orders' = [orders EXCEPT ![i].status = "Cancelled"]
        /\ last' = Idle
        /\ UNCHANGED <<condition, s1_state, s2_state, entry_price, oca_group, position, cycles, ready>>

Next ==
    \/ RunExecute
    \/ RunManagePositions
    \/ TimerFires
    \/ PnlAnswer
    \/ S1BarUpdate
    \/ S2BarUpdate
    \/ OrderFilled
    \/ CancelAck

Spec == Init /\ [][Next]_vars

SpecResumed == InitResumed /\ [][Next]_vars

(***************************************************************************)
(* Vocabulary of the properties.                                           *)
(***************************************************************************)
Live(ref) == {i \in openTrades(orders) : orders[i].orderRef = ref}
Protective == {"fixed_stop_loss", "trailing_stop_loss"}
LiveProtective == {i \in openTrades(orders) : orders[i].orderRef \in Protective}

\* the orders the last step placed, and the positions of its requests
Placed(ref) ==
    {last.reqs[k].orderId : k \in {k \in 1..Len(last.reqs) :
        /\ last.reqs[k].op = "place"
        /\ orders[last.reqs[k].orderId].orderRef = ref}}
PlaceAt(k) == last.reqs[k].op = "place"
CancelAt(k) == last.reqs[k].op = "cancel"
Ran(phase) == \E k \in 1..Len(last.did) : last.did[k] = phase

\* the RealizedPnL/USD value of the summary the last step read, 0 when it has none
PnlRead ==
    LET rows == {k \in 1..Len(last.summary) :
                    /\ last.summary[k].tag = "RealizedPnL"
                    /\ last.summary[k].currency = "USD"}
    IN  IF rows = {} THEN 0
        ELSE last.summary[CHOOSE k \in rows : \A m \in rows : k <= m].value

\* the indicator values the rules read
S1Close == s1_ha_bars[Len(s1_ha_bars) - 1].close
S1Open == s1_ha_bars[Len(s1_ha_bars) - 1].open
S1Ema == s1_ema[Len(s1_ema) - 1]
S2Close == s2_ha_bars[Len(s2_ha_bars)].close
S2Ema == s2_ema[Len(s2_ema)]

(***************************************************************************)
(* C1: in every bar-close cycle the exit evaluation completes first, then  *)
(* the settle delay elapses, and only then does the entry evaluation of    *)
(* that cycle begin.                                                       *)
(***************************************************************************)
C1_ExitThenDelayThenEntry ==
    \A c \in 1..Len(cycles) :
        \A k \in 1..Len(cycles[c].ran) :
            /\ cycles[c].ran[k] = "sleep" =>
                   /\ k = 2
                   /\ cycles[c].ran[1] = "exit"
                   /\ cycles[c].slept >= SleepDelay
            /\ cycles[c].ran[k] = "entry" =>
                   /\ k = 3
                   /\ cycles[c].ran[1] = "exit"
                   /\ cycles[c].ran[2] = "sleep"
                   /\ cycles[c].slept >= SleepDelay

\* a cycle started by a bar update has run its entry evaluation to the end
C1_Witness ==
    \E c \in 2..Len(cycles) :
        /\ cycles[c].pc = "done"
        /\ cycles[c].ran = <<"exit", "sleep", "entry">>

(***************************************************************************)
(* C2: at most one order tagged "entry" is live (placed and not yet filled *)
(* or cancelled).  The code does not hold this: entry checks the position  *)
(* and the trailing stop, not a pending entry order.                       *)
(***************************************************************************)
C2_AtMostOneLiveEntry == Cardinality(Live("entry")) <= 1

C4_NoSecondTrailingStop ==
    /\ Cardinality(Live("trailing_stop_loss")) <= 1
    /\ (last.handler = "manage_positions" /\ last.reqs # <<>>) =>
           /\ Len(last.reqs) = 1
           /\ Live("trailing_stop_loss") = Placed("trailing_stop_loss")

\* manage_positions ran with a position whose excursion reaches the trigger while a
\* trailing stop was open, and sent nothing
C4_Witness ==
    /\ last.handler = "manage_positions"
    /\ last.reqs = <<>>
    /\ Live("trailing_stop_loss") # {}
    /\ position > 0
    /\ entry_price # NoPrice
    /\ QGe(QSub(s1_bars[Len(s1_bars)].high, entry_price),
           QMul(QInt(trailing_stoploss_trigger), TickSize))

(***************************************************************************)
(* C5: when an exit fires, the cancel requests for every open order are    *)
(* all sent before the flattening market order, which is the only order    *)
(* placed, on the opposite side of the net position and for its absolute   *)
(* quantity; no flattening order is placed without that cancel-all.        *)
(***************************************************************************)
C5_CancelAllBeforeFlatten ==
    \A k \in 1..Len(last.reqs) :
        (PlaceAt(k) /\ orders[last.reqs[k].orderId].orderRef = "") =>
            LET f == last.reqs[k].orderId
            IN  /\ k = Len(last.reqs)
                /\ \A m \in 1..(k - 1) : CancelAt(m)
                /\ \A j \in openTrades(orders) \ {f} :
                       /\ orders[j].status = "PendingCancel"
                       /\ \E m \in 1..(k - 1) : last.reqs[m].orderId = j
                /\ position # 0
                /\ orders[f].orderType = "MKT"
                /\ orders[f].action = IF position > 0 THEN "SELL" ELSE "BUY"
                /\ orders[f].totalQuantity = Abs(position)

\* an exit fired with a stop order open: its cancel precedes the flattening order
C5_Witness ==
    /\ Placed("") # {}
    /\ Len(last.reqs) >= 2
    /\ CancelAt(1)
    /\ orders[last.reqs[1].orderId].orderRef = "fixed_stop_loss"

(***************************************************************************)
(* C6: with net quantity 0 and no entry order awaiting its fill, the       *)
(* recorded entry price and the active OCA group id are both null.  The    *)
(* code never resets either.                                               *)
(***************************************************************************)
C6_FlatMeansReset ==
    (position = 0 /\ Live("entry") = {}) =>
        (entry_price = NoPrice /\ oca_group = NoOca)

(***************************************************************************)
(* C7: an entry order is emitted only by an entry evaluation whose         *)
(* realized daily PnL lies in [lower_pnl, upper_pnl], bounds included.     *)
(***************************************************************************)
C7_EntryOnlyWithinPnlLimits ==
    Placed("entry") # {} =>
        /\ Ran("entry_resume")
        /\ lower_pnl <= PnlRead
        /\ PnlRead <= upper_pnl

\* an entry order was emitted with the PnL on the lower bound
C7_Witness ==
    /\ Placed("entry") # {}
    /\ PnlRead = lower_pnl
    /\ last.summary # <<>>

(***************************************************************************)
(* C8: when an entry order is emitted the net position is 0 and no         *)
(* trailing stop is pending.  The code checks both before it awaits the    *)
(* PnL and does not check again.                                           *)
(***************************************************************************)
C8_EntryEmittedOnlyWhenFlat ==
    Placed("entry") # {} =>
        (position = 0 /\ Live("trailing_stop_loss") = {})

(***************************************************************************)
(* C9: an entry evaluation that passed its preconditions and the PnL gate  *)
(* decides as the configured rule says: condition 1 buys iff the           *)
(* second-to-last Heikin-Ashi close of S1 is above its EMA, sells iff      *)
(* below; condition 2 buys iff that bar is bullish and above its EMA and   *)
(* S2's latest close is below S2's latest EMA, sells on the mirror image;  *)
(* the order is a market order tagged "entry" of the configured size.      *)
(***************************************************************************)
C9_Rule ==
    IF condition = "1"
    THEN IF QLt(S1Ema, S1Close) THEN "BUY"
         ELSE IF QLt(S1Close, S1Ema) THEN "SELL" ELSE "none"
    ELSE IF QLt(S1Open, S1Close) /\ QLt(S1Ema, S1Close) /\ QLt(S2Close, S2Ema)
         THEN "BUY"
         ELSE IF QLt(S1Close, S1Open) /\ QLt(S1Close, S1Ema) /\ QLt(S2Ema, S2Close)
              THEN "SELL" ELSE "none"

C9_EntryDecisionIsTheRule ==
    (/\ Ran("entry_resume")
     /\ lower_pnl <= PnlRead
     /\ PnlRead <= upper_pnl
     /\ Len(s1_ha_bars) >= 2) =>
        IF C9_Rule = "none" THEN last.reqs = <<>>
        ELSE /\ Len(last.reqs) = 1
             /\ PlaceAt(1)
             /\ LET o == orders[last.reqs[1].orderId]
                IN  /\ o.orderRef = "entry"
                    /\ o.orderType = "MKT"
                    /\ o.action = C9_Rule
                    /\ o.totalQuantity = size

\* condition 2 sold: bearish bar below its EMA, S2 above its EMA
C9_Witness ==
    /\ Ran("entry_resume")
    /\ condition = "2"
    /\ \E i \in Placed("entry") : orders[i].action = "SELL"

(***************************************************************************)
(* C10: the exit evaluation fires close-and-cancel iff a position is held  *)
(* and the second-to-last S1 bar reverses against it (condition 1: long    *)
(* and close < EMA, short and close > EMA; condition 2: additionally       *)
(* bearish, resp. bullish); otherwise it sends nothing.                    *)
(***************************************************************************)
C10_Reversal ==
    /\ Len(s1_ha_bars) >= 2
    /\ IF condition = "1"
       THEN \/ position > 0 /\ QLt(S1Close, S1Ema)
            \/ position < 0 /\ QLt(S1Ema, S1Close)
       ELSE \/ position > 0 /\ QLt(S1Close, S1Open) /\ QLt(S1Close, S1Ema)
            \/ position < 0 /\ QLt(S1Open, S1Close) /\ QLt(S1Ema, S1Close)

C10_ExitFiresIffReversal ==
    Ran("exit") =>
        IF position # 0 /\ C10_Reversal
        THEN Placed("") # {}
        ELSE last.reqs = <<>>

\* condition 2 closed a short position on a bullish bar above its EMA
C10_Witness ==
    /\ Ran("exit")
    /\ condition = "2"
    /\ position < 0
    /\ Placed("") # {}

(***************************************************************************)
(* C11: only an S1 update that closes a bar starts a bar-close cycle; an   *)
(* intrabar S1 update schedules trailing-stop management only, which sends *)
(* nothing but trailing_stop_loss orders (no entry, no flattening order,   *)
(* no cancel); an S2 update changes S2's bars, Heikin-Ashi bars and EMA    *)
(* and nothing else.                                                       *)
(***************************************************************************)
C11_OnlyBarCloseStartsEvaluation ==
    [][/\ (updates' # updates /\ Len(s1_bars') = Len(s1_bars)) =>
              /\ cycles' = cycles
              /\ ready' = Append(ready, ManageTask)
              /\ UNCHANGED <<orders, position, entry_price, oca_group>>
       /\ (updates' # updates /\ Len(s1_bars') # Len(s1_bars)) =>
              /\ cycles' = Append(cycles, NewCycle)
              /\ ready' = ready \o <<ExecuteTask(Len(cycles')), ManageTask>>
              /\ UNCHANGED <<orders, position, entry_price, oca_group>>
       /\ cycles' # cycles =>
              \/ Len(cycles') = Len(cycles)
              \/ (updates' # updates /\ Len(s1_bars') = Len(s1_bars) + 1)
       /\ last'.handler = "manage_positions" =>
              /\ cycles' = cycles
              /\ \A k \in 1..Len(last'.reqs) :
                     /\ last'.reqs[k].op = "place"
                     /\ orders'[last'.reqs[k].orderId].orderRef = "trailing_stop_loss"
       /\ s2_state' # s2_state =>
              UNCHANGED <<s1_state, entry_price, oca_group, position, orders, cycles, ready>>
      ]_vars

\* with only the cycle of start() around and S2 updated, an intrabar S1 update ran
\* trailing-stop management on an open position
C11_Witness ==
    /\ Len(cycles) = 1
    /\ updates >= 1
    /\ s2_bars[Len(s2_bars)] # S2Flat
    /\ last.handler = "manage_positions"
    /\ Placed("trailing_stop_loss") # {}

(***************************************************************************)
(* C12: the fill of an order tagged "entry" records the fill price as      *)
(* entry price, assigns an OCA group id and places exactly one stop order  *)
(* tagged "fixed_stop_loss" in that group, on the opposite side, for the   *)
(* entry order's quantity, at fill price - fixed_stoploss*0.25 for a BUY   *)
(* entry and fill price + fixed_stoploss*0.25 for a SELL entry.            *)
(***************************************************************************)
C12_EntryFillPlacesFixedStop ==
    [][\A i \in 1..Len(orders) :
          (/\ ~isDone(orders[i])
           /\ orders[i].orderRef = "entry"
           /\ orders'[i].status = "Filled") =>
              LET price == orders'[i].avgFillPrice
                  distance == QMul(QInt(fixed_stoploss), TickSize)
                  stop == orders'[Len(orders')]
              IN  /\ entry_price' = price
                  /\ oca_group' # NoOca
                  /\ Len(orders') = Len(orders) + 1
                  /\ last'.reqs = <<[op |-> "place", orderId |-> Len(orders')]>>
                  /\ stop.orderType = "STP"
                  /\ stop.orderRef = "fixed_stop_loss"
                  /\ stop.ocaGroup = oca_group'
                  /\ ~isDone(stop)
                  /\ stop.totalQuantity = orders[i].totalQuantity
                  /\ stop.action = IF orders[i].action = "BUY" THEN "SELL" ELSE "BUY"
                  /\ stop.auxPrice = IF orders[i].action = "BUY"
                                     THEN QSub(price, distance)
                                     ELSE QAdd(price, distance)
      ]_vars

\* a SELL entry filled: the handler placed a BUY stop above the recorded entry price
C12_Witness ==
    /\ last.handler = "on_order_filled"
    /\ \E i \in Placed("fixed_stop_loss") :
           /\ orders[i].action = "BUY"
           /\ orders[i].auxPrice = QAdd(entry_price, QMul(QInt(fixed_stoploss), TickSize))
           /\ orders[i].ocaGroup = oca_group
           /\ orders[oca_group].orderRef = "entry"
           /\ orders[oca_group].status = "Filled"
           /\ orders[oca_group].action = "SELL"

\* the live market orders of S1 that carry no tag: the flattening orders of an exit
Flattening ==
    {i \in openTrades(orders) :
        /\ orders[i].symbol = S1Symbol
        /\ orders[i].orderType = "MKT"
        /\ orders[i].orderRef = ""}

\* the favorable excursion of the last bar from the recorded entry price, and the
\* trigger distance
Excursion ==
    IF position > 0 THEN QSub(s1_bars[Len(s1_bars)].high, entry_price)
    ELSE QSub(entry_price, s1_bars[Len(s1_bars)].low)
TriggerDistance == QMul(QInt(trailing_stoploss_trigger), TickSize)

\* the last step was a run of manage_positions that placed a trailing stop
TrailingEmitted ==
    /\ last.handler = "manage_positions"
    /\ Placed("trailing_stop_loss") # {}

(***************************************************************************)
(* C13: a trailing stop is emitted in the OCA group of the fixed stop      *)
(* placed at the entry fill of the open position: its group is not null,   *)
(* it is the group of a fixed_stop_loss order, and the entry order that    *)
(* named the group is on the side of the open position.  The code passes   *)
(* self.oca_group as it is, None included.                                 *)
(***************************************************************************)
C13_TrailingStopInEntryOcaGroup ==
    TrailingEmitted =>
        \A t \in Placed("trailing_stop_loss") :
            /\ orders[t].ocaGroup # NoOca
            /\ \E f \in 1..Len(orders) :
                   /\ orders[f].orderRef = "fixed_stop_loss"
                   /\ orders[f].ocaGroup = orders[t].ocaGroup
                   /\ orders[f].action = orders[t].action

(***************************************************************************)
(* C14: the stored S1 EMA series is the EMA recurrence over the            *)
(* Heikin-Ashi close prices of the stored bars, one value per bar.  After  *)
(* an update the code stores the EMA of the raw close prices instead.      *)
(***************************************************************************)
C14_EmaOverHeikinAshiClose ==
    LET alpha == Q(2, ema_period + 1)
    IN  /\ Len(s1_ema) = Len(s1_ha_bars)
        /\ \A i \in 1..Len(s1_ema) :
               s1_ema[i] = IF i = 1 THEN s1_ha_bars[1].close
                           ELSE QAdd(QMul(s1_ha_bars[i].close, alpha),
                                     QMul(s1_ema[i - 1], QSub(QInt(1), alpha)))

(***************************************************************************)
(* C15: the Heikin-Ashi bars have the length of the raw bars and satisfy   *)
(* the recurrence at every index, index 0 included: close is the OHLC      *)
(* average, open[0] = close[0], open[i] = (open[i-1] + close[i-1]) / 2,    *)
(* high = max(raw high, open, close), low = min(raw low, open, close).     *)
(* The code leaves high[0] and low[0] at close[0].                         *)
(***************************************************************************)
C15_HeikinAshiRecurrence ==
    /\ Len(s1_ha_bars) = Len(s1_bars)
    /\ \A i \in 1..Len(s1_bars) :
           LET raw == s1_bars[i]
               ha == s1_ha_bars[i]
           IN  /\ ha.close = QDiv(QAdd(QAdd(raw.open, raw.high),
                                       QAdd(raw.low, raw.close)), QInt(4))
               /\ ha.open = IF i = 1 THEN ha.close
                            ELSE QDiv(QAdd(s1_ha_bars[i - 1].open,
                                           s1_ha_bars[i - 1].close), QInt(2))
               /\ ha.high = QMax(raw.high, QMax(ha.open, ha.close))
               /\ ha.low = QMin(raw.low, QMin(ha.open, ha.close))

(***************************************************************************)
(* C16: a trailing stop is emitted only when the favorable excursion from  *)
(* the entry price exceeds the trigger distance (not when it is less or    *)
(* equal), on the opposite side of the position and for its absolute       *)
(* quantity.  The code compares with >=.                                   *)
(***************************************************************************)
C16_TrailingOnlyBeyondTrigger ==
    TrailingEmitted =>
        /\ QGt(Excursion, TriggerDistance)
        /\ \A t \in Placed("trailing_stop_loss") :
               /\ orders[t].action = IF position > 0 THEN "SELL" ELSE "BUY"
               /\ orders[t].totalQuantity = Abs(position)

\* the trade records of S1 among ib.trades()
S1Records == {i \in 1..Len(orders) : orders[i].symbol = S1Symbol}

\* this step runs manage_positions for a position whose entry price is unknown, with
\* no trailing stop pending
RecoveryStep ==
    /\ ready # <<>>
    /\ Head(ready).task = "manage_positions"
    /\ ready' = Tail(ready)
    /\ last'.handler = "manage_positions"
    /\ position # 0
    /\ entry_price = NoPrice
    /\ Live("trailing_stop_loss") = {}

(***************************************************************************)
(* C17: with a position held and the entry price unknown, manage_positions *)
(* takes the entry price from the most recent trade record of S1; without  *)
(* such a record it places nothing and leaves entry price and orders as    *)
(* they are.  The code looks at the last trade record only and defers when *)
(* that one belongs to another contract.                                   *)
(***************************************************************************)
C17_RecoversFromLatestS1Record ==
    [][RecoveryStep =>
          IF S1Records = {}
          THEN /\ entry_price' = NoPrice
               /\ orders' = orders
          ELSE LET latest == CHOOSE i \in S1Records : \A j \in S1Records : j <= i
               IN  entry_price' = orders[latest].avgFillPrice
      ]_vars

(***************************************************************************)
(* C18: at most one flattening market order is live for a position: a      *)
(* second bar-close cycle whose exit evaluation runs before the first      *)
(* flattening order has filled places no second one.  The code decides on  *)
(* the reported position only: the second exit requests the cancel of the  *)
(* first flattening order, which stays live until the broker confirms, and *)
(* places another.                                                         *)
(***************************************************************************)
C18_AtMostOneFlatteningOrder == Cardinality(Flattening) <= 1

(***************************************************************************)
(* C19: between the cancel-and-flatten of an exit and the fill of the      *)
(* flattening order no trailing stop is emitted.  manage_positions checks  *)
(* the reported position and the open trailing stops, not a flattening     *)
(* order on its way.                                                       *)
(***************************************************************************)
C19_NoTrailingStopWhileFlattening == TrailingEmitted => Flattening = {}

(***************************************************************************)
(* C20: when a trailing stop is emitted, the entry price the excursion is  *)
(* measured from is the fill price of the entry order that opened the open *)
(* position: the latest filled order tagged "entry", on the position's     *)
(* side.  The code keeps the entry price of a closed position and recovers *)
(* an unknown one from whatever trade record is last.                      *)
(***************************************************************************)
C20_EntryPriceIsTheOpeningFill ==
    TrailingEmitted =>
        LET entries == {i \in S1Records : /\ orders[i].orderRef = "entry"
                                          /\ orders[i].status = "Filled"}
        IN  /\ entries # {}
            /\ LET e == CHOOSE i \in entries : \A j \in entries : j <= i
               IN  /\ entry_price = orders[e].avgFillPrice
                   /\ orders[e].action = IF position > 0 THEN "BUY" ELSE "SELL"
                   /\ \A j \in (e + 1)..Len(orders) :
                          (orders[j].status = "Filled" /\ orders[j].symbol = S1Symbol) =>
                              orders[j].action = orders[e].action

====
